---- MODULE Spec2Model ----
(***************************************************************************)
(* Streams and devices of src/device.cpp: a Stream carries a double        *)
(* mass_flow; a Device (Mixer, Divider or Reactor) holds two bounded       *)
(* vectors of shared Stream handles and recomputes the mass flows of its   *)
(* outputs from those of its inputs in updateOutputs.                      *)
(*                                                                         *)
(* The mass flows are IEEE-754 binary64 values, modelled bit for bit: a    *)
(* finite non-negative double is m * 2^e with a 53-bit mantissa m, kept as *)
(* a little-endian sequence of 15-bit limbs, and every arithmetic          *)
(* operation of the code rounds to nearest, ties to even.                  *)
(***************************************************************************)
EXTENDS Integers, Sequences, FiniteSets

(***************************************************************************)
(* Natural numbers of any size: little-endian limbs, no leading zero limb. *)
(***************************************************************************)
RECURSIVE NatBitLen(_)
NatBitLen(n) == IF n = 0 THEN 0 ELSE 1 + NatBitLen(n \div 2)

LimbBase == 2^15
LimbBits == NatBitLen(LimbBase) - 1

RECURSIVE BNorm(_)
BNorm(a) ==
    IF a = <<>> THEN <<>>
    ELSE IF a[Len(a)] = 0 THEN BNorm(SubSeq(a, 1, Len(a) - 1))
    ELSE a

RECURSIVE BFromNat(_)
BFromNat(n) ==
    IF n = 0 THEN <<>> ELSE <<n % LimbBase>> \o BFromNat(n \div LimbBase)

RECURSIVE BAddC(_, _, _)
BAddC(a, b, c) ==
    IF a = <<>> /\ b = <<>> THEN (IF c = 0 THEN <<>> ELSE <<c>>)
    ELSE LET x == IF a = <<>> THEN 0 ELSE Head(a)
             y == IF b = <<>> THEN 0 ELSE Head(b)
             t == x + y + c
         IN  <<t % LimbBase>>
             \o BAddC(IF a = <<>> THEN <<>> ELSE Tail(a),
                      IF b = <<>> THEN <<>> ELSE Tail(b),
                      t \div LimbBase)

BAdd(a, b) == BAddC(a, b, 0)

\* a - b for a >= b
RECURSIVE BSubC(_, _, _)
BSubC(a, b, c) ==
    IF a = <<>> THEN <<>>
    ELSE LET y == IF b = <<>> THEN 0 ELSE Head(b)
             t == Head(a) - y - c
         IN  <<t % LimbBase>>
             \o BSubC(Tail(a), IF b = <<>> THEN <<>> ELSE Tail(b),
                      IF t < 0 THEN 1 ELSE 0)

BSub(a, b) == BNorm(BSubC(a, b, 0))

\* a < b
RECURSIVE BLessFrom(_, _, _)
BLessFrom(a, b, i) ==
    IF i = 0 THEN FALSE
    ELSE IF a[i] # b[i] THEN a[i] < b[i]
    ELSE BLessFrom(a, b, i - 1)

BLess(a, b) ==
    IF Len(a) # Len(b) THEN Len(a) < Len(b) ELSE BLessFrom(a, b, Len(a))

BLeq(a, b) == ~BLess(b, a)

\* a * k for 0 <= k < LimbBase
RECURSIVE BMulSmallC(_, _, _)
BMulSmallC(a, k, c) ==
    IF a = <<>> THEN (IF c = 0 THEN <<>> ELSE <<c>>)
    ELSE LET t == Head(a) * k + c
         IN  <<t % LimbBase>> \o BMulSmallC(Tail(a), k, t \div LimbBase)

BMulSmall(a, k) == IF k = 0 THEN <<>> ELSE BMulSmallC(a, k, 0)

\* a * LimbBase^w
BShlLimbs(a, w) ==
    IF a = <<>> THEN <<>> ELSE [i \in 1..w |-> 0] \o a

\* a * b
RECURSIVE BMulFrom(_, _, _)
BMulFrom(a, b, i) ==
    IF i > Len(a) THEN <<>>
    ELSE BAdd(BShlLimbs(BMulSmall(b, a[i]), i - 1), BMulFrom(a, b, i + 1))

BMul(a, b) == BMulFrom(a, b, 1)

\* quotient and remainder of the limbs i..Len(a) of a (its high part) by n,
\* 0 < n < LimbBase
RECURSIVE BDivFrom(_, _, _)
BDivFrom(a, n, i) ==
    IF i > Len(a) THEN [q |-> <<>>, r |-> 0]
    ELSE LET h == BDivFrom(a, n, i + 1)
             t == h.r * LimbBase + a[i]
         IN  [q |-> <<t \div n>> \o h.q, r |-> t % n]

BDivSmall(a, n) ==
    LET d == BDivFrom(a, n, 1) IN [q |-> BNorm(d.q), r |-> d.r]

\* a * 2^k
BShl(a, k) == BShlLimbs(BMulSmall(a, 2^(k % LimbBits)), k \div LimbBits)

\* floor(a / 2^k), and whether a bit was shifted out
BShr(a, k) ==
    LET w    == k \div LimbBits
        low  == SubSeq(a, 1, IF w < Len(a) THEN w ELSE Len(a))
        high == IF w < Len(a) THEN SubSeq(a, w + 1, Len(a)) ELSE <<>>
        d    == BDivSmall(high, 2^(k % LimbBits))
    IN  [q |-> d.q, lost |-> d.r # 0 \/ \E i \in 1..Len(low) : low[i] # 0]

BitLen(a) ==
    IF a = <<>> THEN 0 ELSE LimbBits * (Len(a) - 1) + NatBitLen(a[Len(a)])

BOdd(a) == a # <<>> /\ a[1] % 2 = 1

(***************************************************************************)
(* double (src/device.cpp:28): a finite non-negative binary64 value is     *)
(* [m, e], standing for m * 2^e, with m = 0 (and e = 0) or m of exactly    *)
(* MantBits bits. Two doubles are equal iff their records are.             *)
(***************************************************************************)
MantBits == 53

FZero == [m |-> <<>>, e |-> 0]

\* the double nearest to M * 2^e (to M * 2^e plus a positive fraction of
\* 2^e when sticky), ties to even
FRound(M, e, sticky) ==
    IF M = <<>> THEN FZero
    ELSE LET L == BitLen(M) IN
         IF L <= MantBits
         THEN [m |-> BShl(M, MantBits - L), e |-> e - (MantBits - L)]
         ELSE LET k    == L - MantBits
                  s1   == BShr(M, k - 1)
                  q    == BShr(s1.q, 1).q
                  half == BOdd(s1.q)
                  rest == s1.lost \/ sticky
                  up   == half /\ (rest \/ BOdd(q))
                  r    == IF up THEN BAdd(q, <<1>>) ELSE q
              IN  IF BitLen(r) > MantBits
                  THEN [m |-> BShr(r, 1).q, e |-> e + k + 1]
                  ELSE [m |-> r, e |-> e + k]

\* the conversion of a small non-negative integer to double (exact)
FromNat(n) == FRound(BFromNat(n), 0, FALSE)

\* x + y
FAdd(x, y) ==
    IF x.m = <<>> THEN y
    ELSE IF y.m = <<>> THEN x
    ELSE LET e == IF x.e < y.e THEN x.e ELSE y.e
         IN  FRound(BAdd(BShl(x.m, x.e - e), BShl(y.m, y.e - e)), e, FALSE)

\* x * y
FMul(x, y) == FRound(BMul(x.m, y.m), x.e + y.e, FALSE)

\* x / y for a divisor y = k * 2^j with 0 < k < LimbBase, which every
\* converted port count is: the double nearest to the real quotient
FDiv(x, y) ==
    LET t == MantBits - LimbBits
        k == BShr(y.m, t).q[1]
        s == LimbBits + 2
        d == BDivSmall(BShl(x.m, s), k)
    IN  FRound(d.q, x.e - s - (y.e + t), d.r # 0)

(***************************************************************************)
(* The bounds of the model, and the doubles the caller hands to            *)
(* setMassFlow (or finds in a Stream it never set: the constructor leaves  *)
(* mass_flow uninitialised).                                               *)
(***************************************************************************)
NumStreams == 2
MaxMixerInputs == 2
MaxDividerOutputs == 3
MaxUpdates == 2

Streams == 1..NumStreams

\* 2^53 - 1, the largest odd double
MaxOdd == [m |-> BSub(BShl(<<1>>, MantBits), <<1>>), e |-> 0]

\* 12.0 (testDividerDividesFlowEqually) and a double of 53 one bits
MassValues == {FromNat(12), MaxOdd}

Range(q) == {q[i] : i \in 1..Len(q)}

(***************************************************************************)
(* The state: the fields of one Device and of the Streams around it, and   *)
(* what the last call was and threw.                                       *)
(***************************************************************************)
VARIABLES
    kind,          \* the dynamic type of the device
    inputAmount,   \* Device::inputAmount
    outputAmount,  \* Device::outputAmount
    inputs_count,  \* Mixer::_inputs_count (0 in the other devices)
    inputs,        \* Device::inputs, a vector of stream handles
    outputs,       \* Device::outputs
    mass,          \* Stream::mass_flow of every stream
    op,            \* the last call
    thrown,        \* what the last call threw, or "none"
    nUpdates       \* the calls of updateOutputs that changed a mass flow

vars == <<kind, inputAmount, outputAmount, inputs_count, inputs, outputs,
          mass, op, thrown, nUpdates>>

MIXER_OUTPUTS == 1

NoThrow == "none"
InputLimit == "INPUT STREAM LIMIT!"
OutputLimit == "OUTPUT STREAM LIMIT!"
TooMuchInputs == "Too much inputs"
TooMuchOutputs == "Too much outputs"
MixerNoOutputs == "Should set outputs before update"
DividerNoPorts == "Divider needs inputs and outputs before update"
OutOfRange == "std::out_of_range"

\* Mixer(int inputs_count)
MixerCtor(n) ==
    /\ kind = "Mixer"
    /\ inputs_count = n
    /\ inputAmount = n
    /\ outputAmount = MIXER_OUTPUTS

\* Reactor(bool isDoubleReactor)
ReactorCtor(isDoubleReactor) ==
    /\ kind = "Reactor"
    /\ inputs_count = 0
    /\ inputAmount = 1
    /\ outputAmount = IF isDoubleReactor THEN 2 ELSE 1

\* Divider(int outputs_count)
DividerCtor(outputs_count) ==
    /\ kind = "Divider"
    /\ inputs_count = 0
    /\ inputAmount = 1
    /\ outputAmount = outputs_count

Init ==
    /\ \/ \E n \in 1..MaxMixerInputs : MixerCtor(n)
       \/ \E b \in BOOLEAN : ReactorCtor(b)
       \/ \E n \in 1..MaxDividerOutputs : DividerCtor(n)
    /\ inputs = <<>>
    /\ outputs = <<>>
    /\ mass \in [Streams -> MassValues]
    /\ op = "new"
    /\ thrown = NoThrow
    /\ nUpdates = 0

\* Stream::setMassFlow, called by the owner of the stream. The owner sets
\* the flows before the first step that changes one: every assignment of
\* MassValues is reachable then, and later values come from the steps.
SetMassFlow(s, m) ==
    /\ nUpdates = 0
    /\ mass' = [mass EXCEPT ![s] = m]
    /\ op' = "setMassFlow"
    /\ thrown' = NoThrow
    /\ UNCHANGED <<kind, inputAmount, outputAmount, inputs_count, inputs,
                   outputs, nUpdates>>

\* Device::addInput: the test of the base class
DeviceInputFull == ~(Len(inputs) < inputAmount)

\* a base class that lets one stream too many in
DeviceOutputFullOffByOne == ~(Len(outputs) <= outputAmount)

\* Device::addOutput: the test of the base class
DeviceOutputFull == ~(Len(outputs) < outputAmount)

\* Mixer::addInput: the test of the Mixer, which hides the base's
MixerInputFull == Len(inputs) = inputs_count

\* a Mixer that compares its outputs with the count of its inputs
MixerOutputFullByInputs == Len(outputs) = inputs_count

\* Mixer::addOutput
MixerOutputFull == Len(outputs) = MIXER_OUTPUTS

\* a vector that inserts at the front
PushFront(q, s) == <<s>> \o q

\* vector::push_back
PushBack(q, s) == Append(q, s)

\* addInput is not virtual: a call through a Mixer runs Mixer::addInput, a
\* call through a Device (any device, a Mixer too) runs Device::addInput
AddInput(s, through) ==
    /\ through = "Mixer" => kind = "Mixer"
    /\ LET full == IF through = "Mixer" THEN MixerInputFull
                   ELSE DeviceInputFull
       IN  IF full
           THEN /\ thrown' = IF through = "Mixer" THEN TooMuchInputs
                             ELSE InputLimit
                /\ UNCHANGED inputs
           ELSE /\ inputs' = PushBack(inputs, s)
                /\ thrown' = NoThrow
    /\ op' = "addInput"
    /\ UNCHANGED <<kind, inputAmount, outputAmount, inputs_count, outputs,
                   mass, nUpdates>>

AddOutput(s, through) ==
    /\ through = "Mixer" => kind = "Mixer"
    /\ LET full == IF through = "Mixer" THEN MixerOutputFull
                   ELSE DeviceOutputFull
       IN  IF full
           THEN /\ thrown' = IF through = "Mixer" THEN TooMuchOutputs
                             ELSE OutputLimit
                /\ UNCHANGED outputs
           ELSE /\ outputs' = PushBack(outputs, s)
                /\ thrown' = NoThrow
    /\ op' = "addOutput"
    /\ UNCHANGED <<kind, inputAmount, outputAmount, inputs_count, inputs,
                   mass, nUpdates>>

\* what a call of updateOutputs leaves: the mass flows, and what it threw
Outcome(m, t) == [mass |-> m, thrown |-> t]

\* for (auto& output_stream : outputs) output_stream->setMassFlow(v),
\* from the i-th output on
RECURSIVE SetOutputsFrom(_, _, _)
SetOutputsFrom(i, v, r) ==
    IF i > Len(outputs) THEN r
    ELSE SetOutputsFrom(i + 1, v,
             Outcome([r.mass EXCEPT ![outputs[i]] = v], NoThrow))

\* Mixer: sum_mass_flow after the inputs i.. have been added to acc
RECURSIVE MixerSumFrom(_, _)
MixerSumFrom(i, acc) ==
    IF i > Len(inputs) THEN acc
    ELSE MixerSumFrom(i + 1, FAdd(acc, mass[inputs[i]]))

\* a Mixer that leaves its first input out
MixerSumSkipsFirst == MixerSumFrom(2, FZero)

MixerSum == MixerSumFrom(1, FZero)

\* Mixer: the guard of the throw
MixerMissing == outputs = <<>>

\* a Mixer that returns where it should throw
MixerReturns == Outcome(mass, NoThrow)

\* Mixer: the throw
MixerThrows == Outcome(mass, MixerNoOutputs)

MixerUpdateOutputs ==
    LET sum_mass_flow == MixerSum IN
    IF MixerMissing THEN MixerThrows
    ELSE LET output_mass == FDiv(sum_mass_flow, FromNat(Len(outputs)))
         IN  SetOutputsFrom(1, output_mass, Outcome(mass, NoThrow))

\* Divider: the guard of the throw
DividerMissing == inputs = <<>> \/ outputs = <<>>

\* a Divider that divides by its declared capacity
DividerDivisorDeclared == outputAmount

\* Divider: what the input mass is divided by
DividerDivisor == Len(outputs)

DividerUpdateOutputs ==
    IF DividerMissing THEN Outcome(mass, DividerNoPorts)
    ELSE LET input_mass  == mass[inputs[1]]
             output_mass == FDiv(input_mass, FromNat(DividerDivisor))
         IN  SetOutputsFrom(1, output_mass, Outcome(mass, NoThrow))

\* a Reactor that splits over the outputs attached
ReactorPortsAttached == Len(outputs)

\* Reactor: the bound of the loop, and what 1.0 is divided by
ReactorPorts == outputAmount

\* Reactor: outputLocal
ReactorOutputLocal(inputMass) ==
    FMul(inputMass, FDiv(FromNat(1), FromNat(ReactorPorts)))

\* Reactor: the loop from i on (i counts from 0, as in the code);
\* outputs.at(i) throws when no output is attached at i
RECURSIVE ReactorLoop(_, _, _)
ReactorLoop(i, inputMass, r) ==
    IF ~(i < ReactorPorts) THEN r
    ELSE IF ~(i < Len(outputs)) THEN Outcome(r.mass, OutOfRange)
    ELSE ReactorLoop(i + 1, inputMass,
             Outcome([r.mass EXCEPT ![outputs[i + 1]] =
                                        ReactorOutputLocal(inputMass)],
                     NoThrow))

ReactorUpdateOutputs ==
    IF inputs = <<>> THEN Outcome(mass, OutOfRange)
    ELSE ReactorLoop(0, mass[inputs[1]], Outcome(mass, NoThrow))

\* the virtual call
VirtualUpdateOutputs ==
    CASE kind = "Mixer"   -> MixerUpdateOutputs
      [] kind = "Divider" -> DividerUpdateOutputs
      [] kind = "Reactor" -> ReactorUpdateOutputs

UpdateOutputs ==
    LET r == VirtualUpdateOutputs IN
    /\ r.mass # mass => nUpdates < MaxUpdates
    /\ mass' = r.mass
    /\ thrown' = r.thrown
    /\ op' = "updateOutputs"
    /\ nUpdates' = IF r.mass # mass THEN nUpdates + 1 ELSE nUpdates
    /\ UNCHANGED <<kind, inputAmount, outputAmount, inputs_count, inputs,
                   outputs>>

\* the accessors
getInput(index) == inputs[index + 1]
getOutput(index) == outputs[index + 1]
getInputCount == Len(inputs)
getOutputCount == Len(outputs)

Next ==
    \/ \E s \in Streams, m \in MassValues : SetMassFlow(s, m)
    \/ \E s \in Streams, t \in {"Device", "Mixer"} : AddInput(s, t)
    \/ \E s \in Streams, t \in {"Device", "Mixer"} : AddOutput(s, t)
    \/ UpdateOutputs

Spec == Init /\ [][Next]_vars

(***************************************************************************)
(* The errors of the specification.                                        *)
(***************************************************************************)
PortLimitInput == {InputLimit, TooMuchInputs}
PortLimitOutput == {OutputLimit, TooMuchOutputs}
PrecursorMissing == {MixerNoOutputs, DividerNoPorts}

\* the steps that are a call of updateOutputs, and those that return
UpdateStep == op' = "updateOutputs"
UpdateReturns == UpdateStep /\ thrown' = NoThrow

(***************************************************************************)
(* C1: in every reachable state the device holds at most inputAmount       *)
(* inputs and at most outputAmount outputs.                                *)
(***************************************************************************)
C1_PortsWithinCapacity ==
    /\ Len(inputs) <= inputAmount
    /\ Len(outputs) <= outputAmount

\* a full Divider of the largest capacity has refused one more output
C1_Witness ==
    /\ kind = "Divider"
    /\ outputAmount = MaxDividerOutputs
    /\ Len(outputs) = outputAmount
    /\ Len(inputs) = inputAmount
    /\ op = "addOutput"
    /\ thrown = OutputLimit

(***************************************************************************)
(* C2: addInput on a device whose inputs are at capacity throws an input   *)
(* limit error, addOutput on one whose outputs are at capacity throws an   *)
(* output limit error, and the call changes neither port list nor a mass   *)
(* flow.                                                                   *)
(***************************************************************************)
C2_FullPortRefuses ==
    [][ /\ (op' = "addInput" /\ Len(inputs) = inputAmount)
            => /\ thrown' \in PortLimitInput
               /\ inputs' = inputs /\ outputs' = outputs /\ mass' = mass
        /\ (op' = "addOutput" /\ Len(outputs) = outputAmount)
            => /\ thrown' \in PortLimitOutput
               /\ inputs' = inputs /\ outputs' = outputs /\ mass' = mass
      ]_vars

\* a Mixer with every port attached has refused one more output
C2_Witness ==
    /\ kind = "Mixer"
    /\ Len(inputs) = inputAmount
    /\ Len(outputs) = outputAmount
    /\ op = "addOutput"
    /\ thrown = TooMuchOutputs

(***************************************************************************)
(* C3: updateOutputs on a Mixer without outputs, or on a Divider without   *)
(* outputs or without inputs, throws the precursor error and changes no    *)
(* mass flow and no port list.                                             *)
(***************************************************************************)
C3_MissingPortsThrow ==
    [][ ( /\ UpdateStep
          /\ \/ kind = "Mixer" /\ outputs = <<>>
             \/ kind = "Divider" /\ (outputs = <<>> \/ inputs = <<>>) )
        => /\ thrown' \in PrecursorMissing
           /\ mass' = mass /\ inputs' = inputs /\ outputs' = outputs
      ]_vars

\* a Mixer with an input and no output has been asked to update
C3_Witness ==
    /\ kind = "Mixer"
    /\ inputs # <<>>
    /\ outputs = <<>>
    /\ op = "updateOutputs"
    /\ thrown = MixerNoOutputs

(***************************************************************************)
(* C4, as claimed: a call of updateOutputs that throws has changed no mass *)
(* flow, and one that returns has left the same value in every attached    *)
(* output.                                                                 *)
(***************************************************************************)
C4_AllOrNothing ==
    [][ UpdateStep
        => /\ thrown' # NoThrow => mass' = mass
           /\ thrown' = NoThrow =>
                \A i \in 1..Len(outputs) : mass'[outputs[i]] = mass'[outputs[1]]
      ]_vars

(***************************************************************************)
(* Real numbers m * 2^e, to state what the doubles stand for: sums,        *)
(* distances and comparisons here are exact.                               *)
(***************************************************************************)
RMin(a, b) == IF a.e < b.e THEN a.e ELSE b.e
RMant(a, e) == BShl(a.m, a.e - e)
RLess(a, b) == BLess(RMant(a, RMin(a, b)), RMant(b, RMin(a, b)))
RLeq(a, b) == ~RLess(b, a)
REq(a, b) == RMant(a, RMin(a, b)) = RMant(b, RMin(a, b))
RDist(a, b) ==
    LET x == RMant(a, RMin(a, b))
        y == RMant(b, RMin(a, b))
    IN  [m |-> IF BLess(x, y) THEN BSub(y, x) ELSE BSub(x, y),
         e |-> RMin(a, b)]
RTimes(a, k) == [m |-> BMul(a.m, k), e |-> a.e]
RPow2(k) == [m |-> <<1>>, e |-> k]

\* the sum of the naturals a[i..]
RECURSIVE BSumFrom(_, _)
BSumFrom(a, i) ==
    IF i > Len(a) THEN <<>> ELSE BAdd(a[i], BSumFrom(a, i + 1))

\* the real sum of the mass flows m of the ports q
RSum(q, m) ==
    IF q = <<>> THEN FZero
    ELSE LET e == CHOOSE e \in {m[q[i]].e : i \in 1..Len(q)} :
                      \A j \in 1..Len(q) : e <= m[q[j]].e
         IN  [m |-> BSumFrom([i \in 1..Len(q) |-> RMant(m[q[i]], e)], 1),
              e |-> e]

\* x is an integer and a multiple of n
IsMultiple(x, n) ==
    IF x.e >= 0 THEN BDivSmall(BShl(x.m, x.e), n).r = 0
    ELSE LET s == BShr(x.m, 0 - x.e)
         IN  ~s.lost /\ BDivSmall(s.q, n).r = 0

\* const float POSSIBLE_ERROR = 0.01, the float nearest to 0.01
POSSIBLE_ERROR == [m |-> BFromNat(5368709), e |-> 0 - 29]

\* the inputs up to which the tolerance is claimed
ToleranceRange == RPow2(46)

\* the step is a Divider's or a Reactor's updateOutputs that returns
SplitReturns == UpdateReturns /\ kind \in {"Divider", "Reactor"}

(***************************************************************************)
(* C5, as claimed: after a Divider's or a Reactor's updateOutputs has      *)
(* returned, the sum of the mass flows of its outputs is within 0.01 of    *)
(* the input mass flow it read, whatever positive value that is, and       *)
(* equal to it when the input is a multiple of the number of outputs.      *)
(***************************************************************************)
C5_SumWithinTolerance ==
    [][ SplitReturns =>
          \A x \in {mass[inputs[1]]} :
          \A S \in {RSum(outputs, mass')} :
              x # FZero =>
                /\ RLess(RDist(S, x), POSSIBLE_ERROR)
                /\ IsMultiple(x, Len(outputs)) => REq(S, x)
      ]_vars

(***************************************************************************)
(* C5, amended: the sum of the outputs differs from the positive input x   *)
(* by at most x * 2^-53; it is within 0.01 of x when x <= 2^46, and equal  *)
(* to x when x is a multiple of the number of outputs.                     *)
(***************************************************************************)
C5_SumWithinRounding ==
    [][ SplitReturns =>
          \A x \in {mass[inputs[1]]} :
          \A D \in {RDist(RSum(outputs, mass'), x)} :
              x # FZero =>
                /\ RLeq(D, [m |-> x.m, e |-> x.e - MantBits])
                /\ RLeq(x, ToleranceRange) => RLess(D, POSSIBLE_ERROR)
                /\ IsMultiple(x, Len(outputs)) => D.m = <<>>
      ]_vars

\* a Divider has split over three outputs a flow within the tolerance range
\* that three does not divide: the outputs add up to no integer
C5_Witness ==
    /\ kind = "Divider"
    /\ op = "updateOutputs"
    /\ thrown = NoThrow
    /\ Len(inputs) = 1
    /\ Len(outputs) = 3
    /\ RLeq(RSum(outputs, mass), ToleranceRange)
    /\ ~IsMultiple(RSum(outputs, mass), 1)

\* the double sum of the doubles ms, added from the left
RECURSIVE DoubleSum(_)
DoubleSum(ms) ==
    IF ms = <<>> THEN FZero
    ELSE IF Len(ms) = 1 THEN ms[1]
    ELSE FAdd(DoubleSum(SubSeq(ms, 1, Len(ms) - 1)), ms[Len(ms)])

InputMasses == [i \in 1..Len(inputs) |-> mass[inputs[i]]]

(***************************************************************************)
(* C6: updateOutputs on a Mixer with its output attached returns, and the  *)
(* output then holds the sum of the mass flows its k inputs had: their     *)
(* double sum from the left, which is 0 for k = 0, the real sum for        *)
(* k = 1, and within (k-1) roundings of the real sum S for larger k        *)
(* (|out - S| * (2^53 - (k-1)) <= (k-1) * S).                              *)
(***************************************************************************)
C6_MixerSums ==
    [][ (UpdateStep /\ kind = "Mixer" /\ outputs # <<>>) =>
          LET out == mass'[outputs[1]]
              S   == RSum(inputs, mass)
              k   == Len(inputs)
          IN  /\ thrown' = NoThrow
              /\ out = DoubleSum(InputMasses)
              /\ k = 0 => out = FZero
              /\ k = 1 => REq(out, S)
              /\ k >= 1 =>
                   RLeq(RTimes(RDist(out, S),
                               BSub(BShl(<<1>>, MantBits), BFromNat(k - 1))),
                        RTimes(S, BFromNat(k - 1)))
      ]_vars

\* a Mixer has added its two inputs into an output that is none of them
C6_Witness ==
    /\ kind = "Mixer"
    /\ op = "updateOutputs"
    /\ thrown = NoThrow
    /\ Len(inputs) = 2
    /\ outputs # <<>>
    /\ outputs[1] \notin Range(inputs)
    /\ mass[outputs[1]] = FAdd(mass[inputs[1]], mass[inputs[2]])

(***************************************************************************)
(* C7, as claimed: a call of updateOutputs that returns right after a call *)
(* of updateOutputs that returned leaves every output mass flow as it was. *)
(***************************************************************************)
C7_Idempotent ==
    [][ (op = "updateOutputs" /\ thrown = NoThrow /\ UpdateReturns)
        => \A i \in 1..Len(outputs) : mass'[outputs[i]] = mass[outputs[i]]
      ]_vars

(***************************************************************************)
(* C8, as claimed: a call of updateOutputs changes neither port list, nor  *)
(* a capacity, nor the mass flow of a stream attached as an input.         *)
(***************************************************************************)
C8_InputsUntouched ==
    [][ UpdateStep
        => /\ inputs' = inputs /\ outputs' = outputs
           /\ inputAmount' = inputAmount /\ outputAmount' = outputAmount
           /\ \A i \in 1..Len(inputs) : mass'[inputs[i]] = mass[inputs[i]]
      ]_vars

(***************************************************************************)
(* C9: an addInput(s) that returns puts s at the index that was the count  *)
(* of inputs (inputs[count + 1] here, where indices start at 1) and keeps  *)
(* the entries before it, and likewise addOutput; any other call leaves    *)
(* the list as it is; so getInput(i) and getOutput(i) never change once    *)
(* set and the counts never decrease.                                      *)
(***************************************************************************)
C9_AppendOnly ==
    [][ /\ \A s \in Streams, t \in {"Device", "Mixer"} :
             /\ (AddInput(s, t) /\ thrown' = NoThrow)
                  => /\ getInputCount' = getInputCount + 1
                     /\ inputs'[getInputCount + 1] = s
             /\ (AddOutput(s, t) /\ thrown' = NoThrow)
                  => /\ getOutputCount' = getOutputCount + 1
                     /\ outputs'[getOutputCount + 1] = s
        /\ ~(op' = "addInput" /\ thrown' = NoThrow) => inputs' = inputs
        /\ ~(op' = "addOutput" /\ thrown' = NoThrow) => outputs' = outputs
        /\ getInputCount' >= getInputCount
        /\ getOutputCount' >= getOutputCount
        /\ \A i \in 0..(getInputCount - 1) : getInput(i)' = getInput(i)
        /\ \A i \in 0..(getOutputCount - 1) : getOutput(i)' = getOutput(i)
      ]_vars

\* a second, different stream has been attached behind the first input
C9_Witness ==
    /\ op = "addInput"
    /\ thrown = NoThrow
    /\ getInputCount = 2
    /\ getInput(0) # getInput(1)

(***************************************************************************)
(* C10: a Divider's updateOutputs that returns leaves in every attached    *)
(* output the input mass flow divided by the number of attached outputs;   *)
(* a Reactor's leaves in each of its outputAmount outputs the input mass   *)
(* flow divided by outputAmount, and throws std::out_of_range when no      *)
(* input or fewer than outputAmount outputs are attached.                  *)
(***************************************************************************)
C10_Divisors ==
    [][ /\ (UpdateReturns /\ kind = "Divider") =>
             \A i \in 1..Len(outputs) :
                 mass'[outputs[i]] =
                     FDiv(mass[inputs[1]], FromNat(getOutputCount))
        /\ (UpdateStep /\ kind = "Reactor") =>
             IF inputs = <<>> \/ Len(outputs) < outputAmount
             THEN thrown' = OutOfRange
             ELSE /\ thrown' = NoThrow
                  /\ \A i \in 1..outputAmount :
                         mass'[outputs[i]] =
                             FDiv(mass[inputs[1]], FromNat(outputAmount))
      ]_vars

\* a Divider with fewer outputs attached than declared has split its input
\* over the two attached
C10_Witness ==
    /\ kind = "Divider"
    /\ op = "updateOutputs"
    /\ thrown = NoThrow
    /\ Len(outputs) = 2
    /\ outputAmount = 3
    /\ inputs[1] \notin Range(outputs)
    /\ mass[outputs[1]] = FDiv(mass[inputs[1]], FromNat(2))

====
